---- MODULE Spec2Model ----
(***************************************************************************)
(* Position / collision engine of rn-bubble-menu.                          *)
(*                                                                         *)
(* BubbleMenu (the current version, printed in src/README.md from line 166 *)
(* on and compiled in src/dist/BubbleMenu.js) owns the shared store        *)
(* bubblePositionsRef and runs the tick runLoop; BubbleWrapper             *)
(* (src/src/BubbleWrapper.tsx) owns each bubble's handle and its drag      *)
(* gesture.                                                                *)
(*                                                                         *)
(* Numbers.  The code computes in IEEE doubles.  Here a coordinate is an   *)
(* integer count of grid units, SCALE units to the pixel, and a result     *)
(* that is not on the grid is rounded to it (as a double rounds to the     *)
(* nearest representable value, on a far finer grid).  Comparisons of      *)
(* distances are made exactly, on squares.                                 *)
(***************************************************************************)
EXTENDS Integers, Sequences, FiniteSets, TLC

\* ------------------------------------------------------------------ bounds
SCALE == 4          \* grid units per pixel
PREC == 8           \* sub-units per grid unit in which hypot is evaluated
MaxInputs == 2      \* grant and move events per behaviour
ConvergeBound == 10 \* ticks without a drag after which every bubble is home

\* --------------------------------------------------------------- arithmetic
Abs(n) == IF n < 0 THEN -n ELSE n

Sign(n) == IF n < 0 THEN -1 ELSE IF n > 0 THEN 1 ELSE 0

Max(a, b) == IF a >= b THEN a ELSE b

Min(a, b) == IF a <= b THEN a ELSE b

\* n / d rounded to the nearest integer (d > 0), halves away from zero
RoundDiv(n, d) == Sign(n) * ((2 * Abs(n) + d) \div (2 * d))

\* n / 2 rounded toward zero
Half(n) == Sign(n) * (Abs(n) \div 2)

RECURSIVE SqrtIter(_, _)
SqrtIter(n, r) ==
    LET s == (r + n \div r) \div 2
    IN IF s >= r THEN r ELSE SqrtIter(n, s)

\* floor of the square root of n >= 0 (Newton's iteration)
ISqrt(n) == IF n < 2 THEN n ELSE SqrtIter(n, n)

Px(p) == p * SCALE

Pos(x, y) == [x |-> x, y |-> y]

\* ------------------------------------------------------------------ state
VARIABLES
    props,              \* BubbleMenu's props: width, height, bubbleRadius, ...
    initialPositions,   \* the home position of every item (useMemo)
    bubblePositions,    \* bubblePositionsRef.current: the shared store
    isDragging,         \* BubbleWrapper isDragging.current, per bubble
    currentPosition,    \* BubbleWrapper currentPosition.current (the handle)
    sinceLogicUpdate,   \* Date.now() - lastLogicUpdateRef.current, capped
    sinceUIUpdate,      \* Date.now() - lastUIUpdateRef.current, capped
    inputs,             \* grant and move events so far
    idleTicks,          \* ticks run in a row with no bubble drag-owned
    loop,               \* what the closures of the tick effect captured at mount
    bubbleRefs,         \* the ids with a handle in bubbleRefs.current
    platform,           \* Platform.OS and Platform.Version, as far as tested
    timeoutId,          \* the timer the effect's timeoutId names
    armed,              \* the timers that are pending
    mounted,            \* the component has not been torn down
    responder,          \* the bubbles whose PanResponder holds a touch
    UISync,             \* UISyncRef.current: the visual-sync step counter
    positionDifferences,\* positionDifferencesRef.current, per bubble
    presses             \* per bubble: press-out events so far, onPress calls so far

\* the variables of the component's life cycle
lifeVars == <<loop, bubbleRefs, platform, timeoutId, armed, mounted>>

\* the variables of the visual-sync loop; a bubble without an entry in
\* positionDifferencesRef.current is kept with the difference (0, 0), which
\* the loop treats the same way: no step
syncVars == <<UISync, positionDifferences>>

vars == <<props, initialPositions, bubblePositions, isDragging, currentPosition,
          sinceLogicUpdate, sinceUIUpdate, inputs, idleTicks, loop, bubbleRefs,
          platform, timeoutId, armed, mounted, responder, UISync,
          positionDifferences, presses>>

\* the ids of props.items, in list order; item 1 is the center bubble
Items == 1 .. props.n

\* the items the tick's closures iterate over
LoopItems == 1 .. loop.props.n

\* ----------------------------------------------------------------- layout
\* 10000 * cos(k * pi / 12)
Cos10k(k) ==
    LET t == k % 24
        q == IF t > 12 THEN 24 - t ELSE t
        c(j) == CASE j = 0 -> 10000 [] j = 1 -> 9659 [] j = 2 -> 8660
                  [] j = 3 -> 7071 [] j = 4 -> 5000 [] j = 5 -> 2588
                  [] OTHER -> 0
    IN IF q <= 6 THEN c(q) ELSE -c(12 - q)

Sin10k(k) == Cos10k(k - 6)

\* a clamp into the container without the lateral padding
constrainToWindowUnpadded(pos, radius) ==
    Pos(Max(0, Min(Px(props.width - radius * 2), pos.x)),
        Max(0, Min(Px(props.height - radius * 2), pos.y)))

constrainToWindow(pos, radius) ==
    Pos(Max(Px(40), Min(Px(props.width - radius * 2 - 40), pos.x)),
        Max(0, Min(Px(props.height - radius * 2), pos.y)))

\* clampPosition with the freedom branch returning the position as it is
clampPositionFreeY(pos, radius) ==
    IF loop.props.bubbleFreedom
    THEN pos
    ELSE Pos(Max(0, Min(Px(loop.props.width - radius * 2), pos.x)),
             Max(0, Min(Px(loop.props.height - radius * 2), pos.y)))

\* clampPosition of BubbleMenu, aware of bubbleFreedom
clampPosition(pos, radius) ==
    IF loop.props.bubbleFreedom
    THEN Pos(pos.x, Max(0, pos.y))
    ELSE Pos(Max(0, Min(Px(loop.props.width - radius * 2), pos.x)),
             Max(0, Min(Px(loop.props.height - radius * 2), pos.y)))

\* the angle of item index (0-based), in units of pi / 12
LayoutAngle(index) ==
    IF index = 0 THEN 0
    ELSE (index * 24) \div (props.n - 1) - 12 \div props.menuRotation

\* a layout that puts every item, the first included, on the circle
LayoutDistanceAll(index) == props.menuDistance + 40

LayoutDistance(index) == IF index = 0 THEN 0 ELSE props.menuDistance + 40

\* the position of item index before constrainToWindow
LayoutRaw(index) ==
    Pos(RoundDiv(SCALE * (props.width * 5000
                          + Cos10k(LayoutAngle(index)) * LayoutDistance(index)
                          - props.bubbleRadius * 10000), 10000),
        RoundDiv(SCALE * (props.height * 5000
                          + Sin10k(LayoutAngle(index)) * LayoutDistance(index)
                          - props.bubbleRadius * 10000), 10000))

ComputeInitialPositions ==
    [id \in Items |-> constrainToWindow(LayoutRaw(id - 1), props.bubbleRadius)]

\* ------------------------------------------------------- collision resolver
\* bubbleRefs.current[id]?.getIsDragging(): undefined, so falsy, without a handle
getIsDragging(id) == id \in bubbleRefs /\ isDragging[id]

nudge == 1

\* minDist of getDistanceData, in grid units
MinDist == Px(loop.props.bubbleRadius * 2 + loop.props.collisionRadius)

\* the square of Math.hypot(dx, dy) between two positions
Dist2(p, q) == (q.x - p.x) * (q.x - p.x) + (q.y - p.y) * (q.y - p.y)

\* a check that also reports a pair exactly minDist apart as colliding
checkCollisionInclusive(store, idA, idB) ==
    /\ idA \in DOMAIN store /\ idB \in DOMAIN store
    /\ Dist2(store[idA], store[idB]) <= MinDist * MinDist

\* getDistanceData is null, and the pair not colliding, when the store lacks
\* an entry for either bubble
checkCollision(store, idA, idB) ==
    /\ idA \in DOMAIN store /\ idB \in DOMAIN store
    /\ Dist2(store[idA], store[idB]) < MinDist * MinDist

checkIndividualCollision(store, idA) ==
    \E other \in LoopItems : other # idA /\ checkCollision(store, idA, other)

\* the sub-units per grid unit in which a distance is evaluated: finer for
\* close pairs, whose direction (dx / distance) is the most sensitive to it
HypotPrec(dx, dy) == IF dx * dx + dy * dy < 10000 THEN 32 * PREC ELSE PREC

\* Math.hypot(dx, dy), in 1 / HypotPrec(dx, dy) of a grid unit
HypotP(dx, dy) ==
    ISqrt((dx * dx + dy * dy) * HypotPrec(dx, dy) * HypotPrec(dx, dy))

\* Math.abs(moveX) < 0.5 && Math.abs(moveY) < 0.5 for the unrounded
\* moveX = (dx / distance) * (overlap / 2), moveY likewise
MoveIsNegligible(dx, dy) ==
    LET distP == HypotP(dx, dy)
        overlapP == MinDist * HypotPrec(dx, dy) - distP
    IN /\ 2 * Abs(dx * overlapP) < SCALE * 2 * distP
       /\ 2 * Abs(dy * overlapP) < SCALE * 2 * distP

\* the displacement when each bubble is moved by the whole overlap
CollisionMoveWhole(dx, dy) ==
    LET distP == HypotP(dx, dy)
        overlapP == MinDist * HypotPrec(dx, dy) - distP
    IN IF MoveIsNegligible(dx, dy)
       THEN Pos(IF dx = 0 THEN Px(nudge) ELSE Sign(dx) * Px(nudge),
                IF dy = 0 THEN Px(nudge) ELSE Sign(dy) * Px(nudge))
       ELSE Pos(RoundDiv(dx * overlapP, distP), RoundDiv(dy * overlapP, distP))

\* the displacement (moveX, moveY) of handleCollision for a delta (dx, dy) # 0
CollisionMove(dx, dy) ==
    LET distP == HypotP(dx, dy)
        overlapP == MinDist * HypotPrec(dx, dy) - distP
        den == 2 * distP
        rawX == dx * overlapP
        rawY == dy * overlapP
    IN IF MoveIsNegligible(dx, dy)
       THEN Pos(IF dx = 0 THEN Px(nudge) ELSE Sign(dx) * Px(nudge),
                IF dy = 0 THEN Px(nudge) ELSE Sign(dy) * Px(nudge))
       ELSE Pos(RoundDiv(rawX, den), RoundDiv(rawY, den))

\* handleCollision without the getIsDragging guards: both bubbles are written
handleCollisionNoDragCheck(store, idA, idB) ==
    LET A == store[idA]
        B == store[idB]
        dx == B.x - A.x
        dy == B.y - A.y
    IN IF dx = 0 /\ dy = 0 THEN store
       ELSE LET mv == CollisionMove(dx, dy)
            IN [store EXCEPT
                  ![idA] = clampPosition(Pos(A.x - mv.x, A.y - mv.y), loop.props.bubbleRadius),
                  ![idB] = clampPosition(Pos(B.x + mv.x, B.y + mv.y), loop.props.bubbleRadius)]

\* a resolver that moves only the second bubble, by the whole overlap
handleCollisionOnlyB(store, idA, idB) ==
    LET A == store[idA]
        B == store[idB]
        dx == B.x - A.x
        dy == B.y - A.y
    IN IF dx = 0 /\ dy = 0 THEN store
       ELSE LET mv == CollisionMoveWhole(dx, dy)
                updatedPosB == clampPosition(Pos(B.x + mv.x, B.y + mv.y), loop.props.bubbleRadius)
            IN IF ~getIsDragging(idB) THEN [store EXCEPT ![idB] = updatedPosB] ELSE store

handleCollision(store, idA, idB) ==
    LET A == store[idA]
        B == store[idB]
        dx == B.x - A.x
        dy == B.y - A.y
    IN IF dx = 0 /\ dy = 0 THEN store
       ELSE LET mv == CollisionMove(dx, dy)
                updatedPosA == clampPosition(Pos(A.x - mv.x, A.y - mv.y), loop.props.bubbleRadius)
                updatedPosB == clampPosition(Pos(B.x + mv.x, B.y + mv.y), loop.props.bubbleRadius)
                s1 == IF ~getIsDragging(idA) THEN [store EXCEPT ![idA] = updatedPosA] ELSE store
            IN IF ~getIsDragging(idB) THEN [s1 EXCEPT ![idB] = updatedPosB] ELSE s1

\* ----------------------------------------------------------------- homing
isBubbleOutOfPosition(store, id) ==
    /\ id \in DOMAIN store
    /\ \/ Abs(loop.initialPositions[id].x - store[id].x) > Px(1)
       \/ Abs(loop.initialPositions[id].y - store[id].y) > Px(1)

RECURSIVE OutOfPositionFrom(_, _)
OutOfPositionFrom(store, k) ==
    IF k > loop.props.n THEN <<>>
    ELSE (IF isBubbleOutOfPosition(store, k) THEN <<k>> ELSE <<>>)
         \o OutOfPositionFrom(store, k + 1)

\* every item is reported, whether it is out of position or not
EveryBubbleOutOfPosition(store) == [i \in 1 .. loop.props.n |-> i]

\* the array of isAnyBubbleOutOfPosition, in item order
isAnyBubbleOutOfPosition(store) == OutOfPositionFrom(store, 1)

isAnyBubbleDragging == \E id \in LoopItems : getIsDragging(id)

willCollideAtPosition(store, id, targetPos) ==
    \E other \in LoopItems :
        /\ other # id
        /\ Dist2(targetPos, store[other])
             < Px(loop.props.bubbleRadius * 2 + 10) * Px(loop.props.bubbleRadius * 2 + 10)

\* the easing of an earlier build: 5% of the remaining distance per tick
EaseAxisSlow(initial, current) ==
    IF Abs(initial - current) < 10 * SCALE THEN initial
    ELSE current + RoundDiv(initial - current, 20)

\* an easing factor of 1.5: the step goes past home
EaseAxisOver(initial, current) ==
    IF Abs(initial - current) < SCALE THEN initial
    ELSE current + 3 * Half(initial - current)

\* one axis of the eased step: snap when half the remaining distance is under 0.5
EaseAxis(initial, current) ==
    IF Abs(initial - current) < SCALE THEN initial
    ELSE current + Half(initial - current)

HomingStep(store, id) ==
    Pos(EaseAxis(loop.initialPositions[id].x, store[id].x),
        EaseAxis(loop.initialPositions[id].y, store[id].y))

RECURSIVE MoveBackFrom(_, _, _)
MoveBackFrom(store, ignoreCollisions, k) ==
    IF k > loop.props.n THEN store
    ELSE LET nextPos == HomingStep(store, k)
             write ==
                /\ k \in bubbleRefs /\ ~isDragging[k]
                /\ isBubbleOutOfPosition(store, k)
                /\ \/ ignoreCollisions
                   \/ /\ ~checkIndividualCollision(store, k)
                      /\ ~willCollideAtPosition(store, k, nextPos)
         IN MoveBackFrom(IF write THEN [store EXCEPT ![k] = nextPos] ELSE store,
                         ignoreCollisions, k + 1)

\* homing that is unconstrained in either mode
moveBubblesBackIgnoring(store, ignoreCollisions) == MoveBackFrom(store, TRUE, 1)

moveBubblesBackToInitialPositions(store, ignoreCollisions) ==
    MoveBackFrom(store, ignoreCollisions, 1)

\* ------------------------------------------------------------------ handle
\* setPosition without the isDragging test
setPositionUnguarded(handles, id, pos) == [handles EXCEPT ![id] = pos]

\* the handle's setPosition: currentPosition.current after the call
setPosition(handles, id, pos) ==
    IF ~isDragging[id] THEN [handles EXCEPT ![id] = pos] ELSE handles

\* --------------------------------------------------------------- platform
\* "ios"; "android" for Android with Platform.Version > 28; "androidLegacy"
Platforms == {"ios", "android", "androidLegacy"}

\* a gate that lets every platform through
PlatformGateOpen == platform \in Platforms

\* the test guarding the tick effect's body
PlatformGate == platform = "ios" \/ platform = "android"

\* -------------------------------------------------------------------- tick
RECURSIVE SweepItemsNoSkip(_, _, _, _)
\* the inner loop without the previouslyChecked skip: a pair of displaced
\* bubbles is resolved once from either side
SweepItemsNoSkip(store, idA, previouslyChecked, k) ==
    IF k > loop.props.n THEN store
    ELSE IF idA = k
         THEN SweepItemsNoSkip(store, idA, previouslyChecked, k + 1)
         ELSE SweepItemsNoSkip(IF checkCollision(store, idA, k)
                               THEN handleCollision(store, idA, k) ELSE store,
                               idA, previouslyChecked, k + 1)

RECURSIVE SweepItems(_, _, _, _)
\* the inner loop of runLoop: array[i] = idA against every item from k on
SweepItems(store, idA, previouslyChecked, k) ==
    IF k > loop.props.n THEN store
    ELSE IF idA = k \/ k \in previouslyChecked
         THEN SweepItems(store, idA, previouslyChecked, k + 1)
         ELSE SweepItems(IF checkCollision(store, idA, k)
                         THEN handleCollision(store, idA, k) ELSE store,
                         idA, previouslyChecked, k + 1)

RECURSIVE SweepArray(_, _, _)
\* the outer loop of runLoop over the out-of-position array, from index i on
SweepArray(store, array, i) ==
    IF i > Len(array) THEN store
    ELSE SweepArray(SweepItems(store, array[i],
                               {array[j] : j \in 1 .. (i - 1)}, 1),
                    array, i + 1)

\* a collision pass that runs whether or not a bubble is dragged
CollisionPassAlways(store) == SweepArray(store, isAnyBubbleOutOfPosition(store), 1)

\* the store after the collision pass of a tick (no pass when nothing is dragged)
CollisionPass(store) ==
    IF isAnyBubbleDragging
    THEN SweepArray(store, isAnyBubbleOutOfPosition(store), 1)
    ELSE store

\* the handle positions after updateUI has flushed store to them
updateUI(store, handles) ==
    [id \in Items |->
        IF id \in LoopItems /\ id \in bubbleRefs /\ ~isDragging[id]
        THEN setPosition(handles, id, store[id])[id]
        ELSE handles[id]]

\* the store after one invocation of runLoop
TickStore(store) ==
    IF isAnyBubbleOutOfPosition(store) = <<>> THEN store
    ELSE moveBubblesBackToInitialPositions(CollisionPass(store), ~isAnyBubbleDragging)

\* a re-arm that does not record the new timer
RearmedLost(old, new) == old

\* which timer timeoutId names once a timer is re-armed, the new one
Rearmed(old, new) == new

\* the body of runLoop up to its re-arm: collision pass, updateUI, homing.
\* This is the run with a store that holds an entry for every item the loop
\* iterates over.
RunLoopBody ==
    /\ LoopItems \subseteq DOMAIN bubblePositions
    /\ bubblePositions' = TickStore(bubblePositions)
    /\ currentPosition' =
          IF isAnyBubbleOutOfPosition(bubblePositions) = <<>> THEN currentPosition
          ELSE updateUI(CollisionPass(bubblePositions), currentPosition)
    /\ idleTicks' = IF isAnyBubbleDragging THEN 0 ELSE Min(idleTicks + 1, ConvergeBound)
    /\ UNCHANGED <<props, initialPositions, isDragging, sinceLogicUpdate,
                   sinceUIUpdate, inputs, loop, bubbleRefs, platform, mounted,
                   responder, UISync, positionDifferences, presses>>

\* runLoop, run by a pending timer: its body and the re-arm.  The timer armed
\* by the effect is timer 0, a re-armed one timer 1 (at most one is pending,
\* so the two never meet).
Tick ==
    /\ \E t \in armed :
          /\ armed' = (armed \ {t}) \cup {1}
          /\ timeoutId' = Rearmed(timeoutId, 1)
    /\ RunLoopBody

\* ------------------------------------------------------ drag gesture adapter
\* Time is counted in UI frame intervals (1000 / K.FPS_UI ms).  Of the wall
\* clock only the differences Date.now() - last...UpdateRef.current are kept,
\* each capped at its frame interval: the throttles compare nothing else.  A
\* timestamp of 0 (never flushed, or reset) lies a whole epoch back: its
\* difference is at the cap.
LOGIC_FRAME_INTERVAL == 2

UI_FRAME_INTERVAL == 1

\* clampPosition of BubbleWrapper: always both axes, whatever bubbleFreedom is
WrapperClamp(x, y) ==
    Pos(Max(0, Min(Px(props.width - props.bubbleRadius * 2), x)),
        Max(0, Min(Px(props.height - props.bubbleRadius * 2), y)))

\* the bubbles are BubbleWrappers, which carry the PanResponder, on iOS only;
\* elsewhere they are BubbleWrapperAndroids, which have none
HasPanResponder == mounted /\ platform = "ios"

onPanResponderGrant(id) ==
    /\ HasPanResponder
    /\ id \notin responder
    /\ inputs < MaxInputs
    /\ inputs' = inputs + 1
    /\ responder' = responder \cup {id}
    /\ isDragging' = [isDragging EXCEPT ![id] = TRUE]
    /\ idleTicks' = 0
    /\ UNCHANGED <<props, initialPositions, bubblePositions, currentPosition,
                   sinceLogicUpdate, sinceUIUpdate>>
    /\ UNCHANGED <<lifeVars, syncVars, presses>>

\* a move handler that notifies the parent on every event, throttle or not
onPanResponderMoveUnthrottled(id, gdx, gdy) ==
    /\ HasPanResponder
    /\ id \in responder
    /\ inputs < MaxInputs
    /\ inputs' = inputs + 1
    /\ LET clampedPosition == WrapperClamp(initialPositions[id].x + gdx,
                                           initialPositions[id].y + gdy)
       IN /\ currentPosition' = [currentPosition EXCEPT ![id] = clampedPosition]
          /\ sinceUIUpdate' =
                IF sinceUIUpdate[id] >= UI_FRAME_INTERVAL
                THEN [sinceUIUpdate EXCEPT ![id] = 0] ELSE sinceUIUpdate
          /\ bubblePositions' = [bubblePositions EXCEPT ![id] = clampedPosition]
          /\ sinceLogicUpdate' =
                IF sinceLogicUpdate[id] >= LOGIC_FRAME_INTERVAL
                THEN [sinceLogicUpdate EXCEPT ![id] = 0] ELSE sinceLogicUpdate
    /\ UNCHANGED <<props, initialPositions, isDragging, idleTicks>>
    /\ UNCHANGED <<lifeVars, responder, syncVars, presses>>

\* a move handler that adds the gesture delta to where the bubble stands
onPanResponderMoveRelative(id, gdx, gdy) ==
    /\ HasPanResponder
    /\ id \in responder
    /\ inputs < MaxInputs
    /\ inputs' = inputs + 1
    /\ LET clampedPosition == WrapperClamp(bubblePositions[id].x + gdx,
                                           bubblePositions[id].y + gdy)
       IN /\ currentPosition' = [currentPosition EXCEPT ![id] = clampedPosition]
          /\ sinceUIUpdate' =
                IF sinceUIUpdate[id] >= UI_FRAME_INTERVAL
                THEN [sinceUIUpdate EXCEPT ![id] = 0] ELSE sinceUIUpdate
          /\ IF sinceLogicUpdate[id] >= LOGIC_FRAME_INTERVAL
             THEN /\ bubblePositions' = [bubblePositions EXCEPT ![id] = clampedPosition]
                  /\ sinceLogicUpdate' = [sinceLogicUpdate EXCEPT ![id] = 0]
             ELSE UNCHANGED <<bubblePositions, sinceLogicUpdate>>
    /\ UNCHANGED <<props, initialPositions, isDragging, idleTicks>>
    /\ UNCHANGED <<lifeVars, responder, syncVars, presses>>

\* a move event whose cumulative gesture delta is (gdx, gdy), in grid units
onPanResponderMove(id, gdx, gdy) ==
    /\ HasPanResponder
    /\ id \in responder
    /\ inputs < MaxInputs
    /\ inputs' = inputs + 1
    /\ LET clampedPosition == WrapperClamp(initialPositions[id].x + gdx,
                                           initialPositions[id].y + gdy)
       IN /\ currentPosition' = [currentPosition EXCEPT ![id] = clampedPosition]
          /\ sinceUIUpdate' =
                IF sinceUIUpdate[id] >= UI_FRAME_INTERVAL
                THEN [sinceUIUpdate EXCEPT ![id] = 0] ELSE sinceUIUpdate
          /\ IF sinceLogicUpdate[id] >= LOGIC_FRAME_INTERVAL
             THEN /\ bubblePositions' = [bubblePositions EXCEPT ![id] = clampedPosition]
                  /\ sinceLogicUpdate' = [sinceLogicUpdate EXCEPT ![id] = 0]
             ELSE UNCHANGED <<bubblePositions, sinceLogicUpdate>>
    /\ UNCHANGED <<props, initialPositions, isDragging, idleTicks>>
    /\ UNCHANGED <<lifeVars, responder, syncVars, presses>>

\* a release whose store write goes through the logic-rate throttle
onPanResponderReleaseThrottled(id) ==
    /\ HasPanResponder
    /\ id \in responder
    /\ responder' = responder \ {id}
    /\ isDragging' = [isDragging EXCEPT ![id] = FALSE]
    /\ currentPosition' = [currentPosition EXCEPT ![id] = initialPositions[id]]
    /\ bubblePositions' =
          IF sinceLogicUpdate[id] >= LOGIC_FRAME_INTERVAL
          THEN [bubblePositions EXCEPT ![id] = initialPositions[id]]
          ELSE bubblePositions
    /\ sinceLogicUpdate' = [sinceLogicUpdate EXCEPT ![id] = LOGIC_FRAME_INTERVAL]
    /\ UNCHANGED <<props, initialPositions, sinceUIUpdate, inputs, idleTicks>>
    /\ UNCHANGED <<lifeVars, syncVars, presses>>

onPanResponderRelease(id) ==
    /\ HasPanResponder
    /\ id \in responder
    /\ responder' = responder \ {id}
    /\ isDragging' = [isDragging EXCEPT ![id] = FALSE]
    /\ currentPosition' = [currentPosition EXCEPT ![id] = initialPositions[id]]
    /\ bubblePositions' = [bubblePositions EXCEPT ![id] = initialPositions[id]]
    /\ sinceLogicUpdate' = [sinceLogicUpdate EXCEPT ![id] = LOGIC_FRAME_INTERVAL]
    /\ UNCHANGED <<props, initialPositions, sinceUIUpdate, inputs, idleTicks>>
    /\ UNCHANGED <<lifeVars, syncVars, presses>>

\* one UI frame interval of wall-clock time passes between two callbacks
AdvanceTime ==
    /\ \E id \in Items : \/ sinceLogicUpdate[id] < LOGIC_FRAME_INTERVAL
                         \/ sinceUIUpdate[id] < UI_FRAME_INTERVAL
    /\ sinceLogicUpdate' =
          [id \in Items |-> Min(sinceLogicUpdate[id] + 1, LOGIC_FRAME_INTERVAL)]
    /\ sinceUIUpdate' = [id \in Items |-> Min(sinceUIUpdate[id] + 1, UI_FRAME_INTERVAL)]
    /\ UNCHANGED <<props, initialPositions, bubblePositions, isDragging,
                   currentPosition, inputs, idleTicks>>
    /\ UNCHANGED <<lifeVars, responder, syncVars, presses>>

\* ------------------------------------------------------------------ inputs
\* the configurations the menu is mounted with; itemRadius is the radius each
\* item supplies, 0 for an item that supplies none
Configs ==
    LET base == [width |-> 300, height |-> 300, bubbleRadius |-> 50,
                 collisionRadius |-> 0, menuDistance |-> 100, menuRotation |-> 4,
                 bubbleFreedom |-> TRUE, n |-> 3,
                 itemRadius |-> [i \in 1 .. 3 |-> 0]]
    IN {base,
        [base EXCEPT !.bubbleFreedom = FALSE],
        [base EXCEPT !.bubbleFreedom = FALSE, !.width = 130],
        [base EXCEPT !.collisionRadius = 10]}

\* where a drag ends relative to another bubble's home, in pixels
Offsets == {Pos(0, 0), Pos(20, 0), Pos(-30, 40)}

\* gestures that run far out of the container, in pixels
FarGestures == {Pos(400, -400)}

\* the cumulative gesture deltas tried on bubble id, in grid units
Gestures(id) ==
    {Pos(initialPositions[c].x + Px(o.x) - initialPositions[id].x,
         initialPositions[c].y + Px(o.y) - initialPositions[id].y) :
        c \in Items \ {id}, o \in Offsets}
    \cup {Pos(Px(g.x), Px(g.y)) : g \in FarGestures}

\* ----------------------------------------------------------- specification
Init ==
    /\ props \in Configs
    /\ initialPositions = ComputeInitialPositions
    /\ loop = [props |-> props, initialPositions |-> initialPositions]
    /\ bubblePositions = initialPositions
    /\ isDragging = [id \in Items |-> FALSE]
    /\ currentPosition = initialPositions
    /\ sinceLogicUpdate = [id \in Items |-> LOGIC_FRAME_INTERVAL]
    /\ sinceUIUpdate = [id \in Items |-> UI_FRAME_INTERVAL]
    /\ inputs = 0
    /\ idleTicks = 0
    /\ bubbleRefs = Items
    /\ platform = "ios"
    /\ timeoutId = 0
    /\ armed = {0}
    /\ mounted = TRUE
    /\ responder = {id \in Items : isDragging[id]}
    /\ UISync = 1
    /\ positionDifferences = [id \in Items |-> Pos(0, 0)]
    /\ presses = [id \in Items |-> [outs |-> 0, calls |-> 0]]

Next ==
    \/ Tick
    \/ \E id \in Items : onPanResponderGrant(id)
    \/ \E id \in Items : \E g \in Gestures(id) : onPanResponderMove(id, g.x, g.y)
    \/ \E id \in Items : onPanResponderRelease(id)
    \/ AdvanceTime

Spec == Init /\ [][Next]_vars

\* ---------------------------------------------- the resolver on its own
\* where the first bubble of a resolved pair is put, in pixels
ResolveBases == {Pos(100, 100), Pos(10, 10)}

\* the second bubble's offset from the first, in grid units
ResolveDeltas ==
    {Pos(0, 0), Pos(Px(20), 0), Pos(0, Px(20)), Pos(-Px(30), Px(40)),
     Pos(Px(60), Px(80)), Pos(Px(70), Px(70)), Pos(Px(7), -Px(3)),
     Pos(MinDist - 1, 0), Pos(MinDist, 0), Pos(0, -MinDist - Px(5))}

InitResolve ==
    /\ props \in Configs
    /\ initialPositions = ComputeInitialPositions
    /\ loop = [props |-> props, initialPositions |-> initialPositions]
    /\ \E base \in ResolveBases : \E d \in ResolveDeltas :
          bubblePositions =
             [id \in Items |->
                 IF id = 1 THEN Pos(Px(base.x), Px(base.y))
                 ELSE IF id = 2 THEN Pos(Px(base.x) + d.x, Px(base.y) + d.y)
                 ELSE initialPositions[id]]
    /\ isDragging \in {[id \in Items |-> FALSE], [id \in Items |-> id = 1]}
    /\ currentPosition = bubblePositions
    /\ sinceLogicUpdate = [id \in Items |-> LOGIC_FRAME_INTERVAL]
    /\ sinceUIUpdate = [id \in Items |-> UI_FRAME_INTERVAL]
    /\ inputs = 0
    /\ idleTicks = 0
    /\ bubbleRefs = Items
    /\ platform = "ios"
    /\ timeoutId = 0
    /\ armed = {0}
    /\ mounted = TRUE
    /\ responder = {id \in Items : isDragging[id]}
    /\ UISync = 1
    /\ positionDifferences = [id \in Items |-> Pos(0, 0)]
    /\ presses = [id \in Items |-> [outs |-> 0, calls |-> 0]]

\* one call handleCollision(idA, idB)
Resolve(idA, idB) ==
    /\ idA # idB
    /\ inputs < MaxInputs
    /\ inputs' = inputs + 1
    /\ bubblePositions' = handleCollision(bubblePositions, idA, idB)
    /\ UNCHANGED <<props, initialPositions, isDragging, currentPosition,
                   sinceLogicUpdate, sinceUIUpdate, idleTicks>>
    /\ UNCHANGED <<lifeVars, responder, syncVars, presses>>

NextResolve == \E idA \in Items : \E idB \in Items : Resolve(idA, idB)

SpecResolve == InitResolve /\ [][NextResolve]_vars

\* ------------------------------------------------------------------ claims
Colliding(id, other) == id # other /\ checkCollision(bubblePositions, id, other)

WithinThreshold(id) ==
    /\ Abs(bubblePositions[id].x - initialPositions[id].x) <= Px(1)
    /\ Abs(bubblePositions[id].y - initialPositions[id].y) <= Px(1)

MoveOf(id) == \E g \in Gestures(id) : onPanResponderMove(id, g.x, g.y)

ConvergenceBounded ==
    idleTicks >= ConvergeBound => \A id \in Items : WithinThreshold(id)

\* three ticks into homing after a drag some bubble is still on its way
ConvergenceWitness ==
    /\ idleTicks >= 3
    /\ \E id \in Items : ~WithinThreshold(id)

\* no two home positions are closer than minDist
HomesApart ==
    \A id \in Items : \A other \in Items \ {id} :
        Dist2(initialPositions[id], initialPositions[other]) >= MinDist * MinDist

\* C3  (as claimed) While a bubble is held at a position that overlaps another
\* one, ticks reach a state with no non-dragged bubble closer than minDist to any
\* bubble: so a state the tick leaves as it is has none.
OverlapResolvedAtRest ==
    (/\ HomesApart
     /\ \E id \in Items : isDragging[id] /\ \E other \in Items : Colliding(id, other)
     /\ TickStore(bubblePositions) = bubblePositions)
    => \A id \in Items : ~isDragging[id] => \A other \in Items : ~Colliding(id, other)

\* C7  Release settles the bubble: right after onRelease(id) the bubble is not
\* dragging, its store entry is its home position, and it is not out of position.
ReleaseSettles ==
    [][\A id \in Items :
          onPanResponderRelease(id)
             => /\ ~isDragging'[id]
                /\ bubblePositions'[id] = initialPositions[id]
                /\ ~isBubbleOutOfPosition(bubblePositions', id)]_vars

\* a bubble back home, not dragging, before any tick since its drag, while a
\* bubble it pushed away is still off its home
ReleaseSettlesWitness ==
    /\ idleTicks = 0
    /\ inputs = MaxInputs
    /\ \A id \in Items : ~isDragging[id]
    /\ \E id \in Items : ~WithinThreshold(id)

\* C8  (as claimed) With bubbleFreedom false every store entry lies within
\* [0, width - 2 * bubbleRadius] x [0, height - 2 * bubbleRadius].
RestrictedBounds ==
    ~props.bubbleFreedom =>
        \A id \in Items :
            /\ 0 <= bubblePositions[id].x
            /\ bubblePositions[id].x <= Px(props.width - 2 * props.bubbleRadius)
            /\ 0 <= bubblePositions[id].y
            /\ bubblePositions[id].y <= Px(props.height - 2 * props.bubbleRadius)

\* C9  With bubbleFreedom true every store entry has y >= 0.
FreedomYNonNegative ==
    props.bubbleFreedom => \A id \in Items : bubblePositions[id].y >= 0

\* a bubble that is not dragged was pushed up against y = 0
FreedomYWitness ==
    /\ props.bubbleFreedom
    /\ \E id \in Items :
          ~isDragging[id] /\ bubblePositions[id].y = 0 /\ initialPositions[id].y > 0

\* C10  (as claimed) With bubbleFreedom true no write clamps x: a drag move by
\* the cumulative delta (gdx, gdy) that passes the logic-rate throttle stores
\* x = home.x + gdx, whatever the container's width is.
FreedomDragUnclampedX ==
    [][\A id \in Items : \A g \in Gestures(id) :
          /\ props.bubbleFreedom
          /\ sinceLogicUpdate[id] >= LOGIC_FRAME_INTERVAL
          /\ onPanResponderMove(id, g.x, g.y)
          => bubblePositions'[id].x = initialPositions[id].x + g.x]_vars

\* the distance between two positions, rounded down to a grid unit
Dist(p, q) == ISqrt(Dist2(p, q))

\* the clamp left pos as it was: a clamped coordinate lies on a bound
StrictlyInside(pos) ==
    /\ pos.y > 0
    /\ ~props.bubbleFreedom =>
          /\ pos.x > 0 /\ pos.x < Px(props.width - 2 * props.bubbleRadius)
          /\ pos.y < Px(props.height - 2 * props.bubbleRadius)

\* the distance between p and q is d, to two grid units
DistanceIs(p, q, d) ==
    /\ Dist2(p, q) >= (d - 2) * (d - 2)
    /\ Dist2(p, q) <= (d + 2) * (d + 2)

\* C4  (as claimed) For two bubbles, neither drag-owned, at a distance d < minDist,
\* one handleCollision call leaves them at the distance minDist when no clamp
\* alters the result.
ResolveExactAnyOverlap ==
    [][\A idA \in Items : \A idB \in Items :
          /\ Resolve(idA, idB)
          /\ ~isDragging[idA] /\ ~isDragging[idB]
          /\ Colliding(idA, idB)
          /\ StrictlyInside(bubblePositions'[idA])
          /\ StrictlyInside(bubblePositions'[idB])
          => DistanceIs(bubblePositions'[idA], bubblePositions'[idB], MinDist)]_vars

\* C4  (amended) The same for every d with 0 < d < minDist whose half-overlap
\* displacement reaches 0.5px on some axis, so that the nudge is not substituted.
ResolveExact ==
    [][\A idA \in Items : \A idB \in Items :
          /\ Resolve(idA, idB)
          /\ ~isDragging[idA] /\ ~isDragging[idB]
          /\ Colliding(idA, idB)
          /\ bubblePositions[idA] # bubblePositions[idB]
          /\ ~MoveIsNegligible(bubblePositions[idB].x - bubblePositions[idA].x,
                               bubblePositions[idB].y - bubblePositions[idA].y)
          /\ StrictlyInside(bubblePositions'[idA])
          /\ StrictlyInside(bubblePositions'[idB])
          => DistanceIs(bubblePositions'[idA], bubblePositions'[idB], MinDist)]_vars

\* two bubbles, neither dragged, are exactly minDist apart on a diagonal after
\* a resolve call moved both of them
ResolveExactWitness ==
    /\ inputs = 1
    /\ \A id \in Items : ~isDragging[id]
    /\ bubblePositions[1] # currentPosition[1]
    /\ bubblePositions[2] # currentPosition[2]
    /\ bubblePositions[1].x # bubblePositions[2].x
    /\ bubblePositions[1].y # bubblePositions[2].y
    /\ StrictlyInside(bubblePositions[1]) /\ StrictlyInside(bubblePositions[2])
    /\ DistanceIs(bubblePositions[1], bubblePositions[2], MinDist)

\* C6  (as claimed) Two bubbles at the same position, neither dragged, are at
\* least the nudge (1px) apart after one handleCollision call.
CoincidentNudged ==
    [][\A idA \in Items : \A idB \in Items :
          /\ Resolve(idA, idB)
          /\ ~isDragging[idA] /\ ~isDragging[idB]
          /\ bubblePositions[idA] = bubblePositions[idB]
          => Dist2(bubblePositions'[idA], bubblePositions'[idB])
                >= Px(nudge) * Px(nudge)]_vars

\* bubble idA is dragged and overlaps the undragged bubble idB; one of the two
\* is out of position, so the tick's sweep resolves the pair, and every other
\* bubble is clear of idA and too far from idB to touch it within the tick
DragOverlap(idA, idB) ==
    /\ isDragging[idA] /\ ~isDragging[idB]
    /\ Colliding(idA, idB)
    /\ bubblePositions[idA] # bubblePositions[idB]
    /\ ~WithinThreshold(idA) \/ ~WithinThreshold(idB)
    /\ \A c \in Items \ {idA, idB} :
          /\ ~Colliding(idA, c)
          /\ 2 * Dist(bubblePositions[idB], bubblePositions[c]) >= 3 * MinDist + 4

\* C5  (as claimed) On the tick after bubble A is dragged into overlap with an
\* undragged bubble B, B is displaced by the whole overlap, so that the two
\* are minDist apart, and A keeps its position.
DragOverlapDisplacesWhole ==
    [][\A idA \in Items : \A idB \in Items :
          /\ DragOverlap(idA, idB)
          /\ Tick
          /\ StrictlyInside(bubblePositions'[idB])
          => /\ bubblePositions'[idA] = bubblePositions[idA]
             /\ DistanceIs(bubblePositions'[idA], bubblePositions'[idB], MinDist)]_vars

\* C5  (amended) On that tick B is displaced by half the overlap, away from A
\* along the line through the two, and A keeps its position, when the
\* displacement is not replaced by the nudge and no clamp alters the result.
DragOverlapDisplacesHalf ==
    [][\A idA \in Items : \A idB \in Items :
          /\ DragOverlap(idA, idB)
          /\ ~MoveIsNegligible(bubblePositions[idB].x - bubblePositions[idA].x,
                               bubblePositions[idB].y - bubblePositions[idA].y)
          /\ Tick
          /\ StrictlyInside(bubblePositions'[idB])
          => LET A == bubblePositions[idA]
                 B == bubblePositions[idB]
                 newB == bubblePositions'[idB]
             IN /\ bubblePositions'[idA] = A
                /\ Abs(2 * Dist(B, newB) - (MinDist - Dist(A, B))) <= 4
                /\ Abs(Dist(A, newB) - Dist(A, B) - Dist(B, newB)) <= 2]_vars

\* a tick has pushed bubble 2 off its home, out of a dragged bubble 1 that
\* stays where the drag put it, and the two still overlap
DragOverlapWitness ==
    /\ isDragging[1] /\ ~isDragging[2]
    /\ idleTicks = 0 /\ inputs = 2
    /\ bubblePositions[1] = currentPosition[1]
    /\ bubblePositions[1] # initialPositions[1]
    /\ bubblePositions[2] # initialPositions[2]
    /\ StrictlyInside(bubblePositions[2])
    /\ Colliding(1, 2)

\* ------------------------------------------------- the handle on its own
\* the positions setPosition is called with
HandleTargets == {initialPositions[c] : c \in Items} \cup {Pos(0, 0)}

\* one call bubbleRefs.current[id].setPosition(pos)
SetPositionCall(id, pos) ==
    /\ mounted
    /\ id \in bubbleRefs
    /\ currentPosition' = setPosition(currentPosition, id, pos)
    /\ UNCHANGED <<props, initialPositions, bubblePositions, isDragging,
                   sinceLogicUpdate, sinceUIUpdate, inputs, idleTicks>>
    /\ UNCHANGED <<lifeVars, responder, syncVars, presses>>

NextHandle ==
    \/ \E id \in Items : \E pos \in HandleTargets : SetPositionCall(id, pos)
    \/ \E id \in Items : onPanResponderGrant(id)
    \/ \E id \in Items : \E g \in Gestures(id) : onPanResponderMove(id, g.x, g.y)
    \/ \E id \in Items : onPanResponderRelease(id)
    \/ AdvanceTime

SpecHandle == Init /\ [][NextHandle]_vars

\* C11  setPosition is a no-op while dragging: a step that changes what
\* getPosition returns for a handle whose isDragging is true is that bubble's
\* own move or release, however many setPosition calls are made on it.
HandleExclusivity ==
    [][\A id \in Items :
          isDragging[id] /\ currentPosition'[id] # currentPosition[id]
             => MoveOf(id) \/ onPanResponderRelease(id)]_vars

\* a dragged handle holds the position its drag gave it while setPosition
\* calls have moved the handle of a bubble that is not dragged
HandleExclusivityWitness ==
    \E id \in Items : \E other \in Items \ {id} :
        /\ isDragging[id] /\ currentPosition[id] # initialPositions[id]
        /\ ~isDragging[other] /\ currentPosition[other] # bubblePositions[other]

\* C12  An idle tick is a no-op: when every bubble is within 1px of its home on
\* both axes, a tick writes nothing to the store and sets no handle's position,
\* whatever the drag flags are.
IdleTickNoOp ==
    [][(\A id \in Items : WithinThreshold(id)) /\ Tick
          => /\ bubblePositions' = bubblePositions
             /\ currentPosition' = currentPosition]_vars

\* ticks have run with every bubble in position while a handle that is not
\* dragged holds a position other than its store entry
IdleTickWitness ==
    /\ idleTicks = ConvergeBound
    /\ \A id \in Items : WithinThreshold(id)
    /\ \E id \in Items : ~isDragging[id] /\ currentPosition[id] # bubblePositions[id]

\* ------------------------------------------------------ configuration change
\* the props the home positions are memoized on
LayoutInputs(c) ==
    <<c.n, c.width, c.height, c.menuDistance, c.bubbleRadius, c.menuRotation>>

\* BubbleMenu is rendered with other props (the item list keeps its length):
\* when a prop the layout depends on has changed, useMemo recomputes the home
\* positions and the store effect copies them; the tick effect, whose
\* dependency list is empty, is not run again
ConfigChange(next) ==
    /\ mounted
    /\ inputs < MaxInputs
    /\ next # props /\ next.n = props.n
    /\ inputs' = inputs + 1
    /\ props' = next
    /\ initialPositions' = ComputeInitialPositions'
    /\ bubblePositions' =
          IF LayoutInputs(next) # LayoutInputs(props)
          THEN initialPositions' ELSE bubblePositions
    /\ UNCHANGED <<isDragging, currentPosition, sinceLogicUpdate, sinceUIUpdate,
                   idleTicks>>
    /\ UNCHANGED <<lifeVars, responder, syncVars, presses>>

NextConfig ==
    \/ Next
    \/ \E next \in Configs : ConfigChange(next)

SpecConfig == Init /\ [][NextConfig]_vars

\* C13  (as claimed) After a configuration change the tick computes the
\* out-of-position set against the recomputed home positions: a store that
\* holds exactly the current home positions is left as it is by a tick.
ConfigChangeTakesEffect ==
    [][(\A id \in Items : bubblePositions[id] = initialPositions[id]) /\ Tick
          => bubblePositions' = bubblePositions]_vars

\* ------------------------------------------------------- handle registry
\* the menu with the handle of bubble 2 registered or missing from bubbleRefs
InitRefs ==
    /\ props \in {c \in Configs : ~c.bubbleFreedom /\ c.width = 300}
    /\ initialPositions = ComputeInitialPositions
    /\ loop = [props |-> props, initialPositions |-> initialPositions]
    /\ bubblePositions = initialPositions
    /\ isDragging = [id \in Items |-> FALSE]
    /\ currentPosition = initialPositions
    /\ sinceLogicUpdate = [id \in Items |-> LOGIC_FRAME_INTERVAL]
    /\ sinceUIUpdate = [id \in Items |-> UI_FRAME_INTERVAL]
    /\ inputs = 0
    /\ idleTicks = 0
    /\ bubbleRefs \in {Items, Items \ {2}}
    /\ platform = "ios"
    /\ timeoutId = 0
    /\ armed = {0}
    /\ mounted = TRUE
    /\ responder = {id \in Items : isDragging[id]}
    /\ UISync = 1
    /\ positionDifferences = [id \in Items |-> Pos(0, 0)]
    /\ presses = [id \in Items |-> [outs |-> 0, calls |-> 0]]

SpecRefs == InitRefs /\ [][Next]_vars

InitLife ==
    /\ props \in Configs
    /\ initialPositions = ComputeInitialPositions
    /\ loop = [props |-> props, initialPositions |-> initialPositions]
    /\ bubblePositions = initialPositions
    /\ isDragging = [id \in Items |-> FALSE]
    /\ currentPosition = initialPositions
    /\ sinceLogicUpdate = [id \in Items |-> LOGIC_FRAME_INTERVAL]
    /\ sinceUIUpdate = [id \in Items |-> UI_FRAME_INTERVAL]
    /\ inputs = 0
    /\ idleTicks = 0
    /\ bubbleRefs = Items
    /\ platform \in Platforms
    /\ timeoutId = 0
    /\ armed = IF PlatformGate THEN {0} ELSE {}
    /\ mounted = TRUE
    /\ responder = {id \in Items : isDragging[id]}
    /\ UISync = 1
    /\ positionDifferences = [id \in Items |-> Pos(0, 0)]
    /\ presses = [id \in Items |-> [outs |-> 0, calls |-> 0]]

\* the effect's cleanup, which exists only behind the gate: clearTimeout(timeoutId)
Teardown ==
    /\ mounted
    /\ mounted' = FALSE
    /\ armed' = IF PlatformGate THEN armed \ {timeoutId} ELSE armed
    /\ UNCHANGED <<props, initialPositions, bubblePositions, isDragging,
                   currentPosition, sinceLogicUpdate, sinceUIUpdate, inputs,
                   idleTicks, loop, bubbleRefs, platform, timeoutId, responder,
                   UISync, positionDifferences, presses>>

NextLife ==
    \/ Tick
    \/ \E next \in Configs : ConfigChange(next)
    \/ Teardown

SpecLife == InitLife /\ [][NextLife]_vars

\* C15  Teardown stops the engine: once the component is torn down no tick
\* runs and the store is not written, at whatever point of the schedule the
\* teardown came, also after the timer was re-armed by a tick.
TeardownStopsEngine ==
    [][~mounted => ~Tick /\ bubblePositions' = bubblePositions]_vars

\* torn down after a tick had re-armed the timer, with bubbles the tick was
\* still moving: no timer is left
TeardownWitness ==
    /\ ~mounted
    /\ timeoutId = 1
    /\ armed = {}
    /\ \E id \in Items : bubblePositions[id] # loop.initialPositions[id]

RadiusConfigs ==
    {[c EXCEPT !.itemRadius = [i \in 1 .. 3 |-> IF i = 2 THEN r ELSE 0]] :
        c \in {k \in Configs : k.width = 300}, r \in {30, 60}}

\* the second bubble's offset from the first, in pixels
RadiusDeltas ==
    {Pos(70, 0), Pos(-70, -60), Pos(0, 105), Pos(0, -95), Pos(115, 0), Pos(66, 88)}

InitRadius ==
    /\ props \in RadiusConfigs
    /\ initialPositions = ComputeInitialPositions
    /\ loop = [props |-> props, initialPositions |-> initialPositions]
    /\ \E d \in RadiusDeltas :
          bubblePositions =
             [id \in Items |->
                 IF id = 1 THEN Pos(Px(100), Px(100))
                 ELSE IF id = 2 THEN Pos(Px(100 + d.x), Px(100 + d.y))
                 ELSE initialPositions[id]]
    /\ isDragging \in {[id \in Items |-> FALSE], [id \in Items |-> id = 1]}
    /\ currentPosition = bubblePositions
    /\ sinceLogicUpdate = [id \in Items |-> LOGIC_FRAME_INTERVAL]
    /\ sinceUIUpdate = [id \in Items |-> UI_FRAME_INTERVAL]
    /\ inputs = 0
    /\ idleTicks = 0
    /\ bubbleRefs = Items
    /\ platform = "ios"
    /\ timeoutId = 0
    /\ armed = {0}
    /\ mounted = TRUE
    /\ responder = {id \in Items : isDragging[id]}
    /\ UISync = 1
    /\ positionDifferences = [id \in Items |-> Pos(0, 0)]
    /\ presses = [id \in Items |-> [outs |-> 0, calls |-> 0]]

\* the collision pass of one runLoop: every bubble checked against the others
Sweep ==
    /\ inputs < MaxInputs
    /\ inputs' = inputs + 1
    /\ bubblePositions' = CollisionPass(bubblePositions)
    /\ UNCHANGED <<props, initialPositions, isDragging, currentPosition,
                   sinceLogicUpdate, sinceUIUpdate, idleTicks>>
    /\ UNCHANGED <<lifeVars, responder, syncVars, presses>>

SpecRadius == InitRadius /\ [][Sweep]_vars

\* the radius the statement gives a bubble: its item's own, else bubbleRadius
RadiusOf(id) ==
    IF props.itemRadius[id] # 0 THEN props.itemRadius[id] ELSE props.bubbleRadius

\* centre of a bubble of radius RadiusOf whose corner is at store[id]
OwnCenter(store, id) ==
    Pos(store[id].x + Px(RadiusOf(id)), store[id].y + Px(RadiusOf(id)))

\* radiusA + radiusB + collisionRadius
OwnMinDist(idA, idB) ==
    Px(RadiusOf(idA) + RadiusOf(idB) + props.collisionRadius)

\* C17  Per-bubble radius: minDist of a pair is radiusA + radiusB +
\* collisionRadius with each item's own radius where it supplies one, so a
\* collision pass over bubbles that are all at least that far apart, centre
\* to centre, moves none of them.
ItemRadiusUsed ==
    [][(\A idA \in Items : \A idB \in Items \ {idA} :
           Dist2(OwnCenter(bubblePositions, idA), OwnCenter(bubblePositions, idB))
              >= OwnMinDist(idA, idB) * OwnMinDist(idA, idB))
       /\ Sweep
          => bubblePositions' = bubblePositions]_vars

\* ------------------------------------------------------ the layout on its own
\* the layouts tried: container sizes, radii, distances, rotations, item counts
LayoutConfigs ==
    {c \in [width : {150, 300}, height : {80, 300}, bubbleRadius : {30, 50},
            collisionRadius : {0}, menuDistance : {-40, 0, 100},
            menuRotation : {1, 4}, bubbleFreedom : {FALSE}, n : 1 .. 4,
            itemRadius : {[i \in 1 .. 4 |-> 0]}] :
        (c.width = 300) <=> (c.height = 300)}

InitLayout ==
    /\ props \in LayoutConfigs
    /\ initialPositions = ComputeInitialPositions
    /\ loop = [props |-> props, initialPositions |-> initialPositions]
    /\ bubblePositions = initialPositions
    /\ isDragging = [id \in Items |-> FALSE]
    /\ currentPosition = initialPositions
    /\ sinceLogicUpdate = [id \in Items |-> LOGIC_FRAME_INTERVAL]
    /\ sinceUIUpdate = [id \in Items |-> UI_FRAME_INTERVAL]
    /\ inputs = 0
    /\ idleTicks = 0
    /\ bubbleRefs = Items
    /\ platform = "ios"
    /\ timeoutId = 0
    /\ armed = {0}
    /\ mounted = TRUE
    /\ responder = {id \in Items : isDragging[id]}
    /\ UISync = 1
    /\ positionDifferences = [id \in Items |-> Pos(0, 0)]
    /\ presses = [id \in Items |-> [outs |-> 0, calls |-> 0]]

\* a re-render with other layout props recomputes the home positions
NextLayout == \E next \in LayoutConfigs : ConfigChange(next)

SpecLayout == InitLayout /\ [][NextLayout]_vars

\* the first item's position before clamping is
\* (width / 2 - bubbleRadius, height / 2 - bubbleRadius)
CenterAtCenter ==
    /\ 2 * LayoutRaw(0).x = Px(props.width) - 2 * Px(props.bubbleRadius)
    /\ 2 * LayoutRaw(0).y = Px(props.height) - 2 * Px(props.bubbleRadius)

\* C18  Center invariant as stated: for any item list and any menuDistance the
\* first item is laid out at the container centre, distance 0, and no other
\* index is given distance 0.
CenterInvariantAnyDistance ==
    /\ CenterAtCenter
    /\ \A index \in 1 .. props.n - 1 : LayoutDistance(index) # 0

\* C18  Center invariant: for any item list and any menuDistance the first item
\* is laid out at the container centre, distance 0; every other index is given
\* distance menuDistance + 40, which is 0 only for menuDistance = -40.
CenterInvariant ==
    /\ CenterAtCenter
    /\ \A index \in 1 .. props.n - 1 :
          /\ LayoutDistance(index) = props.menuDistance + 40
          /\ LayoutDistance(index) = 0 <=> props.menuDistance = -40

\* a layout recomputed on a re-render, with several items on a circle of
\* non-zero radius and the first item's home stored where it was laid out
CenterInvariantWitness ==
    /\ inputs > 0
    /\ props.n >= 3
    /\ props.menuDistance # -40
    /\ initialPositions[1] = LayoutRaw(0)
    /\ \A id \in Items \ {1} : initialPositions[id] # initialPositions[1]

\* every stored home position is inside the padded container
HomesPadded ==
    \A id \in Items :
       /\ Px(40) <= initialPositions[id].x
       /\ initialPositions[id].x <= Px(props.width - 2 * props.bubbleRadius - 40)
       /\ 0 <= initialPositions[id].y
       /\ initialPositions[id].y <= Px(props.height - 2 * props.bubbleRadius)

\* C19  Home positions inside the padded container as stated: for every
\* configuration, every stored home position has
\* 40 <= x <= width - 2*bubbleRadius - 40 and 0 <= y <= height - 2*bubbleRadius.
HomesPaddedAnyContainer == HomesPadded

\* C19  Home positions inside the padded container: the bounds hold for every
\* configuration whose container can hold the padded bubble
\* (width >= 2*bubbleRadius + 80 and height >= 2*bubbleRadius); in a narrower
\* container every home has x = 40, in a lower one every home has y = 0.
HomesPaddedWhenFits ==
    /\ /\ props.width >= 2 * props.bubbleRadius + 80
       /\ props.height >= 2 * props.bubbleRadius
       => HomesPadded
    /\ props.width < 2 * props.bubbleRadius + 80
       => \A id \in Items : initialPositions[id].x = Px(40)
    /\ props.height < 2 * props.bubbleRadius
       => \A id \in Items : initialPositions[id].y = 0

\* a layout recomputed on a re-render for a container that can hold the padded
\* bubble, in which the clamp moved an item onto the left padding
HomesPaddedWitness ==
    /\ inputs > 0
    /\ props.width >= 2 * props.bubbleRadius + 80
    /\ props.height >= 2 * props.bubbleRadius
    /\ \E id \in Items :
          /\ LayoutRaw(id - 1).x < Px(40)
          /\ initialPositions[id].x = Px(40)

\* ------------------------------------------------------- homing on its own
\* restricted 300 x 300 menus with the collision buffers tried
HomingConfigs ==
    {[c EXCEPT !.collisionRadius = cr] :
        c \in {k \in Configs : ~k.bubbleFreedom /\ k.width = 300},
        cr \in {0, 10, 20}}

\* how far right of the second bubble's home the first bubble is held, and how
\* far left of its home the second bubble stands, in pixels
HeldAt == {60, 104, 112, 130}
PushedBy == {0, 8, 16, 40}

InitHoming ==
    /\ props \in HomingConfigs
    /\ initialPositions = ComputeInitialPositions
    /\ loop = [props |-> props, initialPositions |-> initialPositions]
    /\ \E d \in HeldAt : \E p \in PushedBy :
          bubblePositions =
             [id \in Items |->
                 IF id = 1
                 THEN Pos(initialPositions[2].x + Px(d), initialPositions[2].y)
                 ELSE IF id = 2
                 THEN Pos(initialPositions[2].x - Px(p), initialPositions[2].y)
                 ELSE initialPositions[id]]
    /\ isDragging \in {[id \in Items |-> FALSE], [id \in Items |-> id = 1]}
    /\ currentPosition = bubblePositions
    /\ sinceLogicUpdate = [id \in Items |-> LOGIC_FRAME_INTERVAL]
    /\ sinceUIUpdate = [id \in Items |-> UI_FRAME_INTERVAL]
    /\ inputs = 0
    /\ idleTicks = 0
    /\ bubbleRefs = Items
    /\ platform = "ios"
    /\ timeoutId = 0
    /\ armed = {0}
    /\ mounted = TRUE
    /\ responder = {id \in Items : isDragging[id]}
    /\ UISync = 1
    /\ positionDifferences = [id \in Items |-> Pos(0, 0)]
    /\ presses = [id \in Items |-> [outs |-> 0, calls |-> 0]]

\* the homing call of one runLoop
Home ==
    /\ inputs < MaxInputs
    /\ inputs' = inputs + 1
    /\ bubblePositions' =
          moveBubblesBackToInitialPositions(bubblePositions, ~isAnyBubbleDragging)
    /\ UNCHANGED <<props, initialPositions, isDragging, currentPosition,
                   sinceLogicUpdate, sinceUIUpdate, idleTicks>>
    /\ UNCHANGED <<lifeVars, responder, syncVars, presses>>

SpecHoming == InitHoming /\ [][Home]_vars

\* C20  Lookahead prevents homing into a collision: while a bubble is
\* drag-owned, a bubble that was not colliding before its homing write, the
\* only write of the call, is not colliding after it, for every collisionRadius.
LookaheadPreventsCollision ==
    [][isAnyBubbleDragging /\ Home
          => \A id \in Items :
                /\ ~checkIndividualCollision(bubblePositions, id)
                /\ bubblePositions'[id] # bubblePositions[id]
                /\ \A other \in Items \ {id} :
                      bubblePositions'[other] = bubblePositions[other]
                => ~checkIndividualCollision(bubblePositions', id)]_vars

\* --------------------------------------------------- the steps of one tick
\* C21  Tick step order: when an active tick returns, every bubble that is not
\* dragged and has a registered handle has a handle position equal to its
\* store entry (the flush comes after the collision pass and after homing).
FlushAfterHoming ==
    [][isAnyBubbleOutOfPosition(bubblePositions) # <<>> /\ Tick
          => \A id \in Items :
                id \in bubbleRefs /\ ~isDragging[id]
                => currentPosition'[id] = bubblePositions'[id]]_vars

\* C22  Visual position catches up at rest: once the engine is idle after
\* activity (ticks have run since the last drag, nothing is dragged, no bubble
\* is out of position) every handle is at its bubble's store entry.
HandlesCaughtUpAtRest ==
    /\ idleTicks > 0
    /\ \A id \in Items : ~isDragging[id] /\ WithinThreshold(id)
    => \A id \in bubbleRefs : currentPosition[id] = bubblePositions[id]

\* bubble idA is dragged and the undragged bubble idB collides with it, the two
\* possibly at the same position; one of the two is out of position, and every
\* other bubble is clear of idA and too far from idB to touch it within the tick
DragCollision(idA, idB) ==
    /\ isDragging[idA] /\ ~isDragging[idB]
    /\ Colliding(idA, idB)
    /\ ~WithinThreshold(idA) \/ ~WithinThreshold(idB)
    /\ \A c \in Items \ {idA, idB} :
          /\ ~Colliding(idA, c)
          /\ 2 * Dist(bubblePositions[idB], bubblePositions[c]) >= 3 * MinDist + 4

\* C23  A drag-owned bubble still pushes others: in a tick where an undragged
\* bubble B collides with a drag-owned bubble A, one of them out of position,
\* B's store entry moves so that its distance to A strictly increases, unless
\* a clamp alters it, and A's is unchanged.
DraggedBubblePushes ==
    [][\A idA \in Items : \A idB \in Items :
          /\ DragCollision(idA, idB)
          /\ Tick
          /\ StrictlyInside(bubblePositions'[idB])
          => /\ bubblePositions'[idA] = bubblePositions[idA]
             /\ Dist2(bubblePositions'[idA], bubblePositions'[idB])
                   > Dist2(bubblePositions[idA], bubblePositions[idB])]_vars

\* ------------------------------------------- the pairs a sweep looks at
RECURSIVE ChecksOfItemsNoSkip(_, _, _)
\* the inner loop without the previouslyChecked skip
ChecksOfItemsNoSkip(idA, previouslyChecked, k) ==
    IF k > loop.props.n THEN <<>>
    ELSE IF idA = k
         THEN ChecksOfItemsNoSkip(idA, previouslyChecked, k + 1)
         ELSE <<(<<idA, k>>)>> \o ChecksOfItemsNoSkip(idA, previouslyChecked, k + 1)

RECURSIVE ChecksOfItems(_, _, _)
\* the calls checkCollision(array[i], item.id) of the inner loop of runLoop,
\* in order, for array[i] = idA and the items from k on
ChecksOfItems(idA, previouslyChecked, k) ==
    IF k > loop.props.n THEN <<>>
    ELSE IF idA = k \/ k \in previouslyChecked
         THEN ChecksOfItems(idA, previouslyChecked, k + 1)
         ELSE <<(<<idA, k>>)>> \o ChecksOfItems(idA, previouslyChecked, k + 1)

RECURSIVE ChecksOfArray(_, _)
\* the calls of the outer loop over the out-of-position array, from index i on
ChecksOfArray(array, i) ==
    IF i > Len(array) THEN <<>>
    ELSE ChecksOfItems(array[i], {array[j] : j \in 1 .. (i - 1)}, 1)
            \o ChecksOfArray(array, i + 1)

\* the checkCollision calls of the collision pass of a tick run on store
TickChecks(store) ==
    IF isAnyBubbleDragging
    THEN ChecksOfArray(isAnyBubbleOutOfPosition(store), 1)
    ELSE <<>>

\* C24  Sweep evaluates each pair at most once: in the collision pass of a tick
\* every unordered pair of distinct bubbles is checked, and so resolved, at
\* most once, whichever of the two are out of position.
PairCheckedAtMostOnce ==
    LET checks == TickChecks(bubblePositions)
    IN \A a \in Items : \A b \in Items \ {a} :
          Cardinality({i \in DOMAIN checks :
                          checks[i] = <<a, b>> \/ checks[i] = <<b, a>>}) <= 1

\* a tick has pushed bubble 2 off its home while bubble 1 is held away from
\* its own: both are in the out-of-position array of the next pass, which
\* looks at each of the three pairs once
PairCheckedWitness ==
    /\ isDragging[1]
    /\ isAnyBubbleOutOfPosition(bubblePositions) = <<1, 2>>
    /\ Colliding(1, 2)
    /\ TickChecks(bubblePositions) = <<(<<1, 2>>), (<<1, 3>>), (<<2, 3>>)>>

\* C25  No collision pass without a drag: a tick that runs while no bubble is
\* dragged writes to the store exactly the unconstrained homing step of every
\* out-of-position bubble, whether or not bubbles overlap.
NoDragOnlyHoming ==
    [][(\A id \in Items : ~isDragging[id]) /\ Tick
          => \A id \in Items :
                bubblePositions'[id] =
                   IF isBubbleOutOfPosition(bubblePositions, id)
                   THEN HomingStep(bubblePositions, id)
                   ELSE bubblePositions[id]]_vars

\* a tick has run since the last drag, nothing is dragged, and a bubble that is
\* still out of position overlaps another one
NoDragOnlyHomingWitness ==
    /\ idleTicks > 0
    /\ \A id \in Items : ~isDragging[id]
    /\ \E id \in Items : \E other \in Items :
          /\ ~WithinThreshold(id)
          /\ Colliding(id, other)
          /\ bubblePositions[other] = initialPositions[other]

\* the store at the moment homing considers bubble id, in a homing call that
\* starts from store: the items before id have had their turn
StoreAt(store, id) ==
    [j \in Items |-> IF j < id THEN bubblePositions'[j] ELSE store[j]]

\* C26  Collision-aware homing skips colliding bubbles: in a tick with a bubble
\* dragged, an undragged bubble that collides with another one when homing
\* considers it, after the collision pass of the tick, is not moved by homing.
CollidingNotHomed ==
    [][isAnyBubbleDragging /\ Tick
          => LET mid == CollisionPass(bubblePositions)
             IN \A id \in Items :
                   ~isDragging[id] /\ checkIndividualCollision(StoreAt(mid, id), id)
                   => bubblePositions'[id] = mid[id]]_vars

\* a tick has run during a drag and left an undragged bubble out of position
\* and colliding with the dragged one: its handle, flushed before homing, still
\* equals its store entry
CollidingNotHomedWitness ==
    \E id \in Items : \E b \in Items :
       /\ isDragging[id] /\ ~isDragging[b]
       /\ ~WithinThreshold(b)
       /\ Colliding(b, id)
       /\ currentPosition[b] = bubblePositions[b]
       /\ timeoutId = 1

\* one axis of a homing write from old to new with home h: a snap onto home
\* from less than a pixel away, or a step to strictly between old and home
AxisProgress(h, old, new) ==
    \/ new = h /\ Abs(h - old) < Px(1)
    \/ old < new /\ new < h
    \/ h < new /\ new < old

\* C27  Homing never overshoots and always progresses: on each axis a homing
\* write either snaps onto home, from less than a pixel away, or lands
\* strictly between the old coordinate and home, so the remaining distance on
\* an out-of-position axis strictly decreases.
HomingProgress ==
    [][Tick
          => LET mid == CollisionPass(bubblePositions)
             IN \A id \in Items :
                   bubblePositions'[id] # mid[id]
                   => /\ AxisProgress(loop.initialPositions[id].x, mid[id].x,
                                      bubblePositions'[id].x)
                      /\ AxisProgress(loop.initialPositions[id].y, mid[id].y,
                                      bubblePositions'[id].y)
                      /\ Abs(loop.initialPositions[id].x - mid[id].x) > Px(1)
                         => Abs(loop.initialPositions[id].x - bubblePositions'[id].x)
                               < Abs(loop.initialPositions[id].x - mid[id].x)
                      /\ Abs(loop.initialPositions[id].y - mid[id].y) > Px(1)
                         => Abs(loop.initialPositions[id].y - bubblePositions'[id].y)
                               < Abs(loop.initialPositions[id].y - mid[id].y)]_vars

\* a homing write has moved an undragged bubble, past the handle position the
\* tick had flushed, onto home on one axis and short of home on the other
HomingProgressWitness ==
    \E id \in Items :
       /\ ~isDragging[id]
       /\ timeoutId = 1
       /\ currentPosition[id].y # bubblePositions[id].y
       /\ bubblePositions[id].y = initialPositions[id].y
       /\ currentPosition[id].x # bubblePositions[id].x
       /\ bubblePositions[id].x # initialPositions[id].x

\* ------------------------------------------- one pair of the sweep on its own
\* the body of the inner loop of runLoop for one pair:
\* if (checkCollision(idA, idB).isColliding) handleCollision(idA, idB)
CheckAndResolve(idA, idB) ==
    /\ idA # idB
    /\ inputs < MaxInputs
    /\ inputs' = inputs + 1
    /\ bubblePositions' =
          IF checkCollision(bubblePositions, idA, idB)
          THEN handleCollision(bubblePositions, idA, idB)
          ELSE bubblePositions
    /\ UNCHANGED <<props, initialPositions, isDragging, currentPosition,
                   sinceLogicUpdate, sinceUIUpdate, idleTicks>>
    /\ UNCHANGED <<lifeVars, responder, syncVars, presses>>

NextPair == \E idA \in Items : \E idB \in Items : CheckAndResolve(idA, idB)

SpecPair == InitResolve /\ [][NextPair]_vars

SplitCase(idA, idB) ==
    /\ ~isDragging[idA] /\ ~isDragging[idB]
    /\ Colliding(idA, idB)
    /\ bubblePositions[idA] # bubblePositions[idB]
    /\ ~MoveIsNegligible(bubblePositions[idB].x - bubblePositions[idA].x,
                         bubblePositions[idB].y - bubblePositions[idA].y)

\* C29  Symmetric split: when neither bubble of a colliding pair is dragged and
\* neither the nudge nor a clamp applies, resolving the pair moves A by -v and
\* B by +v, with |v| half the overlap and v along the line from A to B: the
\* midpoint is preserved, and resolving (B, A) gives the same positions.
SymmetricSplit ==
    [][\A idA \in Items : \A idB \in Items :
          /\ SplitCase(idA, idB)
          /\ CheckAndResolve(idA, idB)
          /\ StrictlyInside(bubblePositions'[idA])
          /\ StrictlyInside(bubblePositions'[idB])
          => LET A == bubblePositions[idA]
                 B == bubblePositions[idB]
                 newA == bubblePositions'[idA]
                 newB == bubblePositions'[idB]
             IN /\ newA.x + newB.x = A.x + B.x
                /\ newA.y + newB.y = A.y + B.y
                /\ newB.x - B.x = A.x - newA.x
                /\ newB.y - B.y = A.y - newA.y
                /\ Abs(2 * Dist(B, newB) - (MinDist - Dist(A, B))) <= 4
                /\ Abs(Dist(A, newB) - Dist(A, B) - Dist(B, newB)) <= 2
                /\ bubblePositions' = handleCollision(bubblePositions, idB, idA)]_vars

\* the pair (1, 2), put 50 pixels apart on a slant, has been resolved: both
\* bubbles have moved, about their unchanged midpoint, to minDist apart
SymmetricSplitWitness ==
    /\ inputs > 0
    /\ ~isDragging[1] /\ ~isDragging[2]
    /\ \E base \in ResolveBases :
          /\ bubblePositions[1] # Pos(Px(base.x), Px(base.y))
          /\ bubblePositions[1].x + bubblePositions[2].x = 2 * Px(base.x) - Px(30)
          /\ bubblePositions[1].y + bubblePositions[2].y = 2 * Px(base.y) + Px(40)
    /\ StrictlyInside(bubblePositions[1]) /\ StrictlyInside(bubblePositions[2])
    /\ DistanceIs(bubblePositions[1], bubblePositions[2], MinDist)

\* ------------------------------------------------------ a drag under way
\* the menu with the first bubble pressed: its grant has set its drag flag
InitDrag ==
    /\ props \in Configs
    /\ initialPositions = ComputeInitialPositions
    /\ loop = [props |-> props, initialPositions |-> initialPositions]
    /\ bubblePositions = initialPositions
    /\ isDragging = [id \in Items |-> id = 1]
    /\ currentPosition = initialPositions
    /\ sinceLogicUpdate = [id \in Items |-> LOGIC_FRAME_INTERVAL]
    /\ sinceUIUpdate = [id \in Items |-> UI_FRAME_INTERVAL]
    /\ inputs = 0
    /\ idleTicks = 0
    /\ bubbleRefs = Items
    /\ platform = "ios"
    /\ timeoutId = 0
    /\ armed = {0}
    /\ mounted = TRUE
    /\ responder = {id \in Items : isDragging[id]}
    /\ UISync = 1
    /\ positionDifferences = [id \in Items |-> Pos(0, 0)]
    /\ presses = [id \in Items |-> [outs |-> 0, calls |-> 0]]

\* the press runs its course: move events, ticks, time, and the release
NextDrag ==
    \/ Tick
    \/ \E g \in Gestures(1) : onPanResponderMove(1, g.x, g.y)
    \/ onPanResponderRelease(1)
    \/ AdvanceTime

SpecDrag == InitDrag /\ [][NextDrag]_vars

\* a move event of bubble id that passes the logic-rate throttle
PassingMove(id, g) ==
    /\ sinceLogicUpdate[id] >= LOGIC_FRAME_INTERVAL
    /\ onPanResponderMove(id, g.x, g.y)

\* C30  Last write wins for drag input: the store entry of a drag-owned bubble
\* is its value from before the grant until a move event passes the logic-rate
\* throttle, and from then on the clamped position of the latest such event:
\* a grant leaves it, a passing move sets it to that event's clamped position,
\* and no other step (a throttled move, a tick, another bubble's drag) writes it.
LastWriteWins ==
    [][\A id \in Items :
          isDragging'[id]
          => IF \E g \in Gestures(id) : PassingMove(id, g)
             THEN \E g \in Gestures(id) :
                     /\ PassingMove(id, g)
                     /\ bubblePositions'[id] =
                           WrapperClamp(initialPositions[id].x + g.x,
                                        initialPositions[id].y + g.y)
             ELSE bubblePositions'[id] = bubblePositions[id]]_vars

\* two move events in a burst: the store holds the clamped position of the
\* first, which passed the throttle, the handle that of the second, which did
\* not, and a tick has run since
LastWriteWinsWitness ==
    /\ isDragging[1]
    /\ inputs = 2
    /\ timeoutId = 1
    /\ bubblePositions[1] # initialPositions[1]
    /\ currentPosition[1] # initialPositions[1]
    /\ bubblePositions[1] # currentPosition[1]

\* ------------------------------------------- a gesture that is taken away
\* the responder is taken from bubble id (another view claims the touch, or
\* the system cancels it): PanResponder.create is given no
\* onPanResponderTerminate, so nothing of the wrapper's state changes
onPanResponderTerminate(id) ==
    /\ HasPanResponder
    /\ id \in responder
    /\ responder' = responder \ {id}
    /\ UNCHANGED <<props, initialPositions, bubblePositions, isDragging,
                   currentPosition, sinceLogicUpdate, sinceUIUpdate, inputs,
                   idleTicks>>
    /\ UNCHANGED <<lifeVars, syncVars, presses>>

\* the press of the first bubble runs its course, ends by release or by
\* termination, and the bubble is pressed again
NextGesture ==
    \/ NextDrag
    \/ onPanResponderGrant(1)
    \/ onPanResponderTerminate(1)

SpecGesture == InitDrag /\ [][NextGesture]_vars

\* a move event of bubble id
MoveEvent(id) == \E g \in Gestures(id) : onPanResponderMove(id, g.x, g.y)

\* C31  Throttled store writes: a move event writes the store exactly when a
\* logic frame interval has passed since the bubble's last store write, so two
\* successive writes of one drag are at least that far apart; a grant leaves
\* the logic throttle open, so the first move after it always writes; and the
\* handle's animation is throttled by its own clock alone, the UI one.
ThrottledStoreWrites ==
    [][\A id \in Items :
          /\ MoveEvent(id)
             => /\ IF sinceLogicUpdate[id] >= LOGIC_FRAME_INTERVAL
                   THEN /\ bubblePositions'[id] = currentPosition'[id]
                        /\ sinceLogicUpdate'[id] = 0
                   ELSE /\ bubblePositions'[id] = bubblePositions[id]
                        /\ sinceLogicUpdate'[id] = sinceLogicUpdate[id]
                /\ sinceUIUpdate'[id] =
                      IF sinceUIUpdate[id] >= UI_FRAME_INTERVAL
                      THEN 0 ELSE sinceUIUpdate[id]
          /\ onPanResponderGrant(id)
             => sinceLogicUpdate'[id] >= LOGIC_FRAME_INTERVAL]_vars

\* --------------------------------------------- grabbing a displaced bubble
\* the first bubble is held next to the second one's home, and the second
\* one stands pushed off its home
InitGrab ==
    /\ props \in HomingConfigs
    /\ initialPositions = ComputeInitialPositions
    /\ loop = [props |-> props, initialPositions |-> initialPositions]
    /\ \E d \in HeldAt : \E p \in PushedBy \ {0} :
          bubblePositions =
             [id \in Items |->
                 IF id = 1
                 THEN Pos(initialPositions[2].x + Px(d), initialPositions[2].y)
                 ELSE IF id = 2
                 THEN Pos(initialPositions[2].x - Px(p), initialPositions[2].y)
                 ELSE initialPositions[id]]
    /\ isDragging = [id \in Items |-> id = 1]
    /\ currentPosition = bubblePositions
    /\ sinceLogicUpdate = [id \in Items |-> LOGIC_FRAME_INTERVAL]
    /\ sinceUIUpdate = [id \in Items |-> UI_FRAME_INTERVAL]
    /\ inputs = 0
    /\ idleTicks = 0
    /\ bubbleRefs = Items
    /\ platform = "ios"
    /\ timeoutId = 0
    /\ armed = {0}
    /\ mounted = TRUE
    /\ responder = {id \in Items : isDragging[id]}
    /\ UISync = 1
    /\ positionDifferences = [id \in Items |-> Pos(0, 0)]
    /\ presses = [id \in Items |-> [outs |-> 0, calls |-> 0]]

\* the second bubble is grabbed where it stands and dragged
NextGrab ==
    \/ Tick
    \/ onPanResponderGrant(2)
    \/ \E g \in Gestures(2) : onPanResponderMove(2, g.x, g.y)
    \/ onPanResponderRelease(2)
    \/ AdvanceTime

SpecGrab == InitGrab /\ [][NextGrab]_vars

\* the home of bubble id plus the delta g, each axis cut to
\* [0, size - 2 * radius]
AbsoluteTarget(id, g) ==
    LET x == initialPositions[id].x + g.x
        y == initialPositions[id].y + g.y
        maxX == Px(props.width - 2 * props.bubbleRadius)
        maxY == Px(props.height - 2 * props.bubbleRadius)
    IN Pos(IF x < 0 THEN 0 ELSE IF x > maxX THEN maxX ELSE x,
           IF y < 0 THEN 0 ELSE IF y > maxY THEN maxY ELSE y)

ReleaseResetsThrottles ==
    [][\A id \in Items :
          onPanResponderRelease(id)
          => /\ sinceLogicUpdate'[id] >= LOGIC_FRAME_INTERVAL
             /\ sinceUIUpdate'[id] >= UI_FRAME_INTERVAL]_vars

\* ----------------------------------- the variant with a visual-sync loop
\* K.FPS_SYNC: the sync loop walks 1 / FPS_SYNC of a difference per
\* invocation; its step counter runs modulo 3
FPS_SYNC == 3

\* d * stepSize, cut to the grid
SyncStep(d) == IF d >= 0 THEN d \div FPS_SYNC ELSE -((-d) \div FPS_SYNC)

\* runLogicLoop of the variant: the collision sweep and the homing of runLoop,
\* with no flush to the handles
runLogicLoop ==
    /\ mounted /\ PlatformGate
    /\ isAnyBubbleOutOfPosition(bubblePositions) # <<>>
    /\ inputs < MaxInputs
    /\ inputs' = inputs + 1
    /\ bubblePositions' = TickStore(bubblePositions)
    /\ idleTicks' = IF isAnyBubbleDragging THEN 0 ELSE Min(idleTicks + 1, ConvergeBound)
    /\ UNCHANGED <<props, initialPositions, isDragging, currentPosition,
                   sinceLogicUpdate, sinceUIUpdate>>
    /\ UNCHANGED <<lifeVars, responder, syncVars, presses>>

\* positionDifferencesRef.current after updateUI: taken anew, logical minus
\* visual position, on the first step of a sync cycle
SyncDifferences(store, handles) ==
    [id \in Items |->
        IF UISync = 1 /\ id \in LoopItems /\ id \in bubbleRefs
        THEN Pos(store[id].x - handles[id].x, store[id].y - handles[id].y)
        ELSE positionDifferences[id]]

\* the handle positions after updateUI of the variant: every handle with a
\* difference above 0.1 pixel walks one step of it
SyncHandles(store, handles) ==
    [id \in Items |->
        LET d == SyncDifferences(store, handles)[id]
        IN IF id \in LoopItems /\ id \in bubbleRefs /\ (d.x # 0 \/ d.y # 0)
           THEN setPosition(handles, id,
                            Pos(handles[id].x + SyncStep(d.x),
                                handles[id].y + SyncStep(d.y)))[id]
           ELSE handles[id]]

\* a sync loop that also drags the store to where the handles are
runUILoopWritingBack ==
    /\ mounted /\ PlatformGate
    /\ isAnyBubbleOutOfPosition(bubblePositions) # <<>>
    /\ inputs < MaxInputs
    /\ inputs' = inputs + 1
    /\ positionDifferences' = SyncDifferences(bubblePositions, currentPosition)
    /\ currentPosition' = SyncHandles(bubblePositions, currentPosition)
    /\ bubblePositions' = currentPosition'
    /\ UISync' = (UISync % 3) + 1
    /\ UNCHANGED <<props, initialPositions, isDragging, sinceLogicUpdate,
                   sinceUIUpdate, idleTicks, responder>>
    /\ UNCHANGED <<lifeVars, presses>>

\* runUILoop of the variant, when some bubble is out of position: updateUI
\* and the step counter
runUILoop ==
    /\ mounted /\ PlatformGate
    /\ isAnyBubbleOutOfPosition(bubblePositions) # <<>>
    /\ inputs < MaxInputs
    /\ inputs' = inputs + 1
    /\ positionDifferences' = SyncDifferences(bubblePositions, currentPosition)
    /\ currentPosition' = SyncHandles(bubblePositions, currentPosition)
    /\ UISync' = (UISync % 3) + 1
    /\ UNCHANGED <<props, initialPositions, bubblePositions, isDragging,
                   sinceLogicUpdate, sinceUIUpdate, idleTicks, responder>>
    /\ UNCHANGED <<lifeVars, presses>>

\* the first bubble is held next to the second one's home and the logic loop
\* has pushed the second one off it in the store; its handle still shows it
\* at home
InitSync ==
    /\ props \in HomingConfigs
    /\ initialPositions = ComputeInitialPositions
    /\ loop = [props |-> props, initialPositions |-> initialPositions]
    /\ \E d \in HeldAt : \E p \in PushedBy \ {0} :
          bubblePositions =
             [id \in Items |->
                 IF id = 1
                 THEN Pos(initialPositions[2].x + Px(d), initialPositions[2].y)
                 ELSE IF id = 2
                 THEN Pos(initialPositions[2].x - Px(p), initialPositions[2].y)
                 ELSE initialPositions[id]]
    /\ isDragging = [id \in Items |-> id = 1]
    /\ currentPosition = [bubblePositions EXCEPT ![2] = initialPositions[2]]
    /\ sinceLogicUpdate = [id \in Items |-> LOGIC_FRAME_INTERVAL]
    /\ sinceUIUpdate = [id \in Items |-> UI_FRAME_INTERVAL]
    /\ inputs = 0
    /\ idleTicks = 0
    /\ bubbleRefs = Items
    /\ platform = "ios"
    /\ timeoutId = 0
    /\ armed = {0}
    /\ mounted = TRUE
    /\ responder = {id \in Items : isDragging[id]}
    /\ UISync \in 1 .. 3
    /\ positionDifferences = [id \in Items |-> Pos(0, 0)]
    /\ presses = [id \in Items |-> [outs |-> 0, calls |-> 0]]

\* the two loops of the variant, in any order
NextSync ==
    \/ runLogicLoop
    \/ runUILoop

SpecSync == InitSync /\ [][NextSync]_vars

\* C36  Visual sync never touches the physics state: an invocation of the
\* visual-sync loop leaves every entry of the store as it was; what it
\* changes is handle positions, its differences and its step counter.
VisualSyncLeavesStore ==
    [][runUILoop
       => /\ bubblePositions' = bubblePositions
          /\ isDragging' = isDragging
          /\ initialPositions' = initialPositions]_vars

\* in the middle of a sync cycle a bubble that is not dragged has been pushed
\* off its home in the store, and its handle has walked a part of the way
VisualSyncWitness ==
    /\ UISync = 2
    /\ inputs > 0
    /\ \E id \in Items :
          /\ ~isDragging[id]
          /\ bubblePositions[id] # initialPositions[id]
          /\ currentPosition[id] # initialPositions[id]
          /\ currentPosition[id] # bubblePositions[id]

\* ------------------------------------ a configuration change under a drag
\* the first bubble is pressed and dragged while the menu's props change
NextReseed ==
    \/ NextDrag
    \/ \E next \in Configs : ConfigChange(next)

SpecReseed == InitDrag /\ [][NextReseed]_vars

\* C35  Every writer checks drag ownership: when the store is initialised
\* again after a configuration change, the entry of a bubble that is
\* drag-owned at that moment is left as it was.
ReseedSparesDragOwned ==
    [][\A next \in Configs :
          ConfigChange(next)
          => \A id \in Items :
                isDragging[id] => bubblePositions'[id] = bubblePositions[id]]_vars

\* ------------------------------------------------ a change of the item list
\* BubbleMenu is rendered with its item list cut by the last item: useMemo
\* recomputes the home positions for the items left and the store effect
\* replaces the store by them, so the store has no entry for the item
\* removed.  The tick effect is not run again: its closures keep the item
\* list of the mount.  The handle of the removed bubble stays registered (the
\* ref callback ignores null), and the state behind it is kept.
ItemsChange ==
    /\ mounted
    /\ inputs < MaxInputs
    /\ props.n > 2
    /\ inputs' = inputs + 1
    /\ props' = [props EXCEPT !.n = props.n - 1]
    /\ initialPositions' = ComputeInitialPositions'
    /\ bubblePositions' = initialPositions'
    /\ responder' = responder \ {props.n}
    /\ UNCHANGED <<isDragging, currentPosition, sinceLogicUpdate, sinceUIUpdate,
                   idleTicks>>
    /\ UNCHANGED <<lifeVars, syncVars, presses>>

\* Math.hypot(dx, dy) < minDist of willCollideAtPosition
WithinLookahead(targetPos, otherPos) ==
    Dist2(targetPos, otherPos)
       < Px(loop.props.bubbleRadius * 2 + 10) * Px(loop.props.bubbleRadius * 2 + 10)

\* willCollideAtPosition throws: in item order it comes to an item without a
\* store entry (otherPos is undefined, otherPos.x a TypeError) before it
\* comes to one within minDist of targetPos
LookaheadThrows(store, id, targetPos) ==
    \E other \in LoopItems :
        /\ other # id
        /\ other \notin DOMAIN store
        /\ \A o \in LoopItems :
              (o < other /\ o # id)
              => (o \in DOMAIN store /\ ~WithinLookahead(targetPos, store[o]))

\* what willCollideAtPosition returns when it does not throw
LookaheadHit(store, id, targetPos) ==
    \E other \in LoopItems :
        /\ other # id
        /\ other \in DOMAIN store
        /\ WithinLookahead(targetPos, store[other])

RECURSIVE MoveBackOrThrow(_, _, _)
\* moveBubblesBackToInitialPositions from item k on, for a store that may
\* lack entries: the store it leaves, and whether its lookahead has thrown
\* (which ends the forEach and the tick at that item)
MoveBackOrThrow(store, ignoreCollisions, k) ==
    IF k > loop.props.n THEN [store |-> store, thrown |-> FALSE]
    ELSE LET nextPos == HomingStep(store, k)
             candidate ==
                /\ k \in bubbleRefs /\ ~isDragging[k]
                /\ isBubbleOutOfPosition(store, k)
                /\ ignoreCollisions \/ ~checkIndividualCollision(store, k)
         IN IF candidate /\ ~ignoreCollisions /\ LookaheadThrows(store, k, nextPos)
            THEN [store |-> store, thrown |-> TRUE]
            ELSE MoveBackOrThrow(
                    IF candidate /\ (ignoreCollisions \/ ~LookaheadHit(store, k, nextPos))
                    THEN [store EXCEPT ![k] = nextPos] ELSE store,
                    ignoreCollisions, k + 1)

\* the homing of a tick run from the current state
TickHoming ==
    IF isAnyBubbleOutOfPosition(bubblePositions) = <<>>
    THEN [store |-> bubblePositions, thrown |-> FALSE]
    ELSE MoveBackOrThrow(CollisionPass(bubblePositions), ~isAnyBubbleDragging, 1)

\* runLoop with a store that lacks the entry of an item the loop iterates
\* over: the same steps, but when the lookahead throws, the exception leaves
\* runLoop before its setTimeout, and no timer is armed
TickStale ==
    /\ ~(LoopItems \subseteq DOMAIN bubblePositions)
    /\ \E t \in armed :
          IF TickHoming.thrown
          THEN /\ armed' = armed \ {t}
               /\ timeoutId' = timeoutId
          ELSE /\ armed' = (armed \ {t}) \cup {1}
               /\ timeoutId' = Rearmed(timeoutId, 1)
    /\ bubblePositions' = TickHoming.store
    /\ currentPosition' =
          IF isAnyBubbleOutOfPosition(bubblePositions) = <<>> THEN currentPosition
          ELSE updateUI(CollisionPass(bubblePositions), currentPosition)
    /\ idleTicks' = IF isAnyBubbleDragging THEN 0 ELSE Min(idleTicks + 1, ConvergeBound)
    /\ UNCHANGED <<props, initialPositions, isDragging, sinceLogicUpdate,
                   sinceUIUpdate, inputs, loop, bubbleRefs, platform, mounted,
                   responder, UISync, positionDifferences,
                   presses>>

\* the first bubble is pressed and dragged while the item list is cut
NextItems ==
    \/ Tick
    \/ TickStale
    \/ ItemsChange
    \/ \E g \in Gestures(1) : onPanResponderMove(1, g.x, g.y)
    \/ onPanResponderRelease(1)
    \/ AdvanceTime

SpecItems == InitDrag /\ [][NextItems]_vars

\* C34  Homing lookahead never faults: whatever the store holds and whatever
\* the item list is, a store that lacks an entry for a listed item included,
\* the homing of the tick that is pending returns without throwing (a failed
\* lookahead only leaves the bubble where it is).
LookaheadNeverFaults == (mounted /\ armed # {}) => ~TickHoming.thrown

\* C37  The tick driver keeps exactly one timer alive: from the mount, with
\* the gate open, to the teardown exactly one tick is pending at every
\* instant, because every invocation of runLoop, whatever happens inside it,
\* arms exactly one successor.
OneTimerAlive == (mounted /\ PlatformGate) => Cardinality(armed) = 1

\* C38  Drag ownership always ends: a bubble is drag-owned only while its
\* gesture is under way; once the gesture is over, by a release or by the
\* responder being terminated, its isDragging is false again.
DragOwnershipEnds == \A id \in Items : isDragging[id] => id \in responder

\* ------------------------------------------------------------ the press
\* a press handler that calls onPress whether or not the bubble is dragged
handlePressUnguarded(id) ==
    /\ HasPanResponder
    /\ inputs < MaxInputs
    /\ inputs' = inputs + 1
    /\ presses' = [presses EXCEPT ![id] = [outs |-> @.outs + 1, calls |-> @.calls + 1]]
    /\ UNCHANGED <<props, initialPositions, bubblePositions, isDragging,
                   currentPosition, sinceLogicUpdate, sinceUIUpdate, idleTicks>>
    /\ UNCHANGED <<lifeVars, responder, syncVars>>

\* the Pressable of bubble id reports a press-out: handlePress calls the
\* item's onPress unless the bubble is being dragged
handlePress(id) ==
    /\ HasPanResponder
    /\ inputs < MaxInputs
    /\ inputs' = inputs + 1
    /\ presses' =
          [presses EXCEPT ![id] =
              [outs |-> @.outs + 1,
               calls |-> IF ~isDragging[id] THEN @.calls + 1 ELSE @.calls]]
    /\ UNCHANGED <<props, initialPositions, bubblePositions, isDragging,
                   currentPosition, sinceLogicUpdate, sinceUIUpdate, idleTicks>>
    /\ UNCHANGED <<lifeVars, responder, syncVars>>

\* gestures, ticks and press-outs in any order
NextPress ==
    \/ Next
    \/ \E id \in Items : handlePress(id)

SpecPress == Init /\ [][NextPress]_vars

\* C40  No press during a drag: no step invokes the onPress callback of a
\* bubble whose isDragging is true.
NoPressDuringDrag ==
    [][\A id \in Items :
          presses'[id].calls # presses[id].calls => ~isDragging[id]]_vars

\* a press-out has reached a bubble that was being dragged, and its onPress
\* has not been called
NoPressDuringDragWitness ==
    \E id \in Items :
        /\ isDragging[id]
        /\ presses[id].outs = 1
        /\ presses[id].calls = 0

\* ----------------------------------------------------------- a held drag
\* the first bubble is held, drag-owned, next to the second one's home
InitHold == InitHoming /\ isDragging[1]

\* runLoop with the timers it arms told apart: the timer a run arms is not
\* the one that ran it
HeldTick ==
    /\ \E t \in armed :
          /\ armed' = (armed \ {t}) \cup {1 - t}
          /\ timeoutId' = Rearmed(timeoutId, 1 - t)
    /\ RunLoopBody

\* the pending timer fires and its run arms the next one
TimerFires == timeoutId' = 1 - timeoutId

\* the drag rests: no move event comes, and the ticks go on.  Every run of
\* runLoop ends by arming a timer, and a pending timer fires: weak fairness of
\* the timer's turnover, every step of which is a run of runLoop
SpecHold == InitHold /\ [][HeldTick]_vars /\ WF_timeoutId(TimerFires)

\* no tick from here changes the store
Settled == TickStore(bubblePositions) = bubblePositions

\* C39  No jitter under a held drag: while one bubble is held drag-owned at a
\* fixed position, after finitely many ticks the store entries of all other
\* bubbles stop changing, for every collisionRadius.
NoJitter == <>[]Settled

====
